---- MODULE Spec2Model ----
(***************************************************************************)
(* PlaNet recurrent state-space model (mbrl/models/planet.py).             *)
(*                                                                         *)
(* Tensors are sequences: a vector is a sequence of integers, a [B, F]     *)
(* tensor a sequence of B vectors, a history list a sequence (over time)   *)
(* of [B, F] tensors.  Real numbers are fixed point: every tensor element  *)
(* n stands for n / 10, KL values are in 1/1000 nat.  The learned          *)
(* layers of torch (nn.Linear, nn.GRUCell, the convolutional encoder and   *)
(* decoder) are deterministic functions of their input and of the model    *)
(* parameters theta; they are modelled as integer affine maps whose        *)
(* weights are read from theta.                                            *)
(***************************************************************************)
EXTENDS Integers, Sequences, FiniteSets, TLC

VARIABLES
    theta,                \* the model's parameters (weights of all layers)
    pc,                   \* "idle" | "loop" | "forwarded" | "computed"
    kind,                 \* entry point of the call in progress
    reduce,               \* the reduce argument loss() received
    batch,                \* [B, T, next_obs, act] of the call in progress
    t_step,               \* loop counter of forward
    current_latent_state, \* forward's local
    current_belief,       \* forward's local
    states_and_beliefs,   \* the StatesAndBeliefs object forward created last
    fed,                  \* the latent states passed to belief_model, in order
    draws,                \* the noise draws torch.randn_like returned, in order
    decoder_input,        \* forward's local, after .view
    out,                  \* forward's return value
    kl_args,              \* the four tensors handed to Normal(...) in loss
    result,               \* the value returned by loss / eval_score
    prev,                 \* what the caller kept of the previous call
    split_in,             \* input of a direct MeanStdSplit.forward call
    split_out             \* its output

vars == << theta, pc, kind, reduce, batch, t_step, current_latent_state,
           current_belief, states_and_beliefs, fed, draws, decoder_input, out,
           kl_args, result, prev, split_in, split_out >>

NoTensor == << >>
NoRec == [none |-> TRUE]

----------------------------------------------------------------------------
(* Bounds of the model.                                                    *)

MaxB == 2               \* batch sizes 1..MaxB
MaxT == 2               \* trajectory lengths 1..MaxT
latent_state_size == 2  \* width of a latent state

(* Input domains.                                                          *)

Thetas == {1, 2}        \* parameter settings of the model
Draws == {0, 1, 2}      \* noise draws the generator can return at a step

(* Configuration of the instance (constructor arguments).                  *)

action_size == 1
belief_size == 1
obs_encoding_size == 1
hidden_size_fcs == 2
min_std == 1            \* 0.1, in tenths
free_nats_for_kl == 3000 \* 3 nats, in 1/1000 nat

----------------------------------------------------------------------------
(* Tensor helpers.                                                         *)

RECURSIVE SumSeq(_)
SumSeq(s) == IF s = << >> THEN 0 ELSE Head(s) + SumSeq(Tail(s))

RECURSIVE Flatten(_)
Flatten(ss) == IF ss = << >> THEN << >> ELSE Head(ss) \o Flatten(Tail(ss))

Zeros(n) == [i \in 1..n |-> 0]
ZerosBatch(B, n) == [b \in 1..B |-> Zeros(n)]

\* x[:, :k] and x[:, k:] of a [B, F] tensor
Cols(x, lo, hi) == [b \in 1..Len(x) |-> SubSeq(x[b], lo, hi)]
\* torch.cat([x, y], dim=1) of two [B, *] tensors
Cat1(x, y) == [b \in 1..Len(x) |-> x[b] \o y[b]]
\* x[1:] along the leading axis
DropFirst(x) == SubSeq(x, 2, Len(x))

Max(a, b) == IF a >= b THEN a ELSE b
Min(a, b) == IF a <= b THEN a ELSE b

\* rationals num/den, den > 0, for the means
Rat(n, d) == [num |-> n, den |-> d]
RatAdd(p, q) == Rat(p.num * q.den + q.num * p.den, p.den * q.den)
RatEq(p, q) == p.num * q.den = q.num * p.den

----------------------------------------------------------------------------
(* Numerical primitives of torch, in fixed point.                          *)

\* round(10 * ln(1 + e^(x / 10))) for x in -39..39
SoftplusTable ==
   << 0, 0, 0, 0, 0, 0, 0, 0, 0, 0, 1, 1, 1, 1, 1, 1, 1, 1, 1, 1,
      1, 2, 2, 2, 2, 2, 2, 3, 3, 3, 3, 4, 4, 4, 5, 5, 6, 6, 6, 7,
      7, 8, 9, 9, 10, 10, 11, 12, 12, 13, 14, 15, 15, 16, 17, 18, 19, 20, 20, 21,
      22, 23, 24, 25, 26, 27, 28, 29, 30, 30, 31, 32, 33, 34, 35, 36, 37, 38, 39 >>

\* F.softplus: ln(1 + e^x); 0 after rounding far below zero, x far above
Softplus(x) ==
    IF x >= 40 THEN x
    ELSE IF x <= -40 THEN 0
    ELSE SoftplusTable[x + 40]

\* round(1000 * ln(n / 10)) for n in 1..160
LnTable ==
   << -2303, -1609, -1204, -916, -693, -511, -357, -223, -105, 0,
      95, 182, 262, 336, 405, 470, 531, 588, 642, 693,
      742, 788, 833, 875, 916, 956, 993, 1030, 1065, 1099,
      1131, 1163, 1194, 1224, 1253, 1281, 1308, 1335, 1361, 1386,
      1411, 1435, 1459, 1482, 1504, 1526, 1548, 1569, 1589, 1609,
      1629, 1649, 1668, 1686, 1705, 1723, 1740, 1758, 1775, 1792,
      1808, 1825, 1841, 1856, 1872, 1887, 1902, 1917, 1932, 1946,
      1960, 1974, 1988, 2001, 2015, 2028, 2041, 2054, 2067, 2079,
      2092, 2104, 2116, 2128, 2140, 2152, 2163, 2175, 2186, 2197,
      2208, 2219, 2230, 2241, 2251, 2262, 2272, 2282, 2293, 2303,
      2313, 2322, 2332, 2342, 2351, 2361, 2370, 2380, 2389, 2398,
      2407, 2416, 2425, 2434, 2442, 2451, 2460, 2468, 2477, 2485,
      2493, 2501, 2510, 2518, 2526, 2534, 2542, 2549, 2557, 2565,
      2573, 2580, 2588, 2595, 2603, 2610, 2617, 2625, 2632, 2639,
      2646, 2653, 2660, 2667, 2674, 2681, 2688, 2695, 2701, 2708,
      2715, 2721, 2728, 2734, 2741, 2747, 2754, 2760, 2766, 2773 >>

LnMilli(n) == LnTable[n]

ReLU(v) == [i \in 1..Len(v) |-> Max(v[i], 0)]

\* KL(Normal(q_loc, q_scale) || Normal(p_loc, p_scale)) of one element, in
\* 1/1000 nat: ln(p_scale/q_scale) + (q_scale^2 + (q_loc-p_loc)^2)/(2 p_scale^2) - 1/2
KLElem(q_loc, q_scale, p_loc, p_scale) ==
    (LnMilli(p_scale) - LnMilli(q_scale))
    + (1000 * (q_scale * q_scale + (q_loc - p_loc) * (q_loc - p_loc)))
        \div (2 * p_scale * p_scale)
    - 500

----------------------------------------------------------------------------
(* The learned layers.  theta selects the weights.                         *)

Weight(th, layer, i, j) == ((th * (i + layer) + j * (layer + 1) + th) % 3) - 1
Bias(th, layer, i) == 10 * ((th + layer + i) % 2)

\* nn.Linear(Len(x), n) on one row
Linear(th, layer, x, n) ==
    [i \in 1..n |->
        SumSeq([j \in 1..Len(x) |-> Weight(th, layer, i, j) * x[j]])
        + Bias(th, layer, i)]

\* torch.nn.GRUCell on one row: the new hidden vector is a bounded function
\* of the input and of the old hidden vector, every element within (-1, 1)
GRUCell(th, x, h) ==
    LET pre == Linear(th, 2, x, Len(h))
        rec == Linear(th, 3, h, Len(h))
    IN  [i \in 1..Len(h) |-> Max(-9, Min(9, pre[i] - rec[i]))]

\* BeliefModel.forward
BeliefModel(th, latent_state, action, belief) ==
    LET x == Cat1(latent_state, action)
    IN  [b \in 1..Len(x) |->
            GRUCell(th, ReLU(Linear(th, 1, x[b], belief_size)), belief[b])]

\* a split that adds min_std to the raw second half, without the softplus
MeanStdSplit_raw(state_dist_params) ==
    LET n    == Len(state_dist_params[1])
        mean == Cols(state_dist_params, 1, latent_state_size)
        raw  == Cols(state_dist_params, latent_state_size + 1, n)
        std  == [b \in 1..Len(raw) |->
                    [i \in 1..Len(raw[b]) |-> raw[b][i] + min_std]]
    IN  Cat1(mean, std)

\* MeanStdSplit.forward
MeanStdSplit(state_dist_params) ==
    LET n    == Len(state_dist_params[1])
        mean == Cols(state_dist_params, 1, latent_state_size)
        raw  == Cols(state_dist_params, latent_state_size + 1, n)
        std  == [b \in 1..Len(raw) |->
                    [i \in 1..Len(raw[b]) |-> Softplus(raw[b][i]) + min_std]]
    IN  Cat1(mean, std)

\* the Linear, ReLU, Linear, ReLU trunk shared by both transition models
Trunk(th, layer, x) ==
    [b \in 1..Len(x) |->
        ReLU(Linear(th, layer + 1,
                    ReLU(Linear(th, layer, x[b], hidden_size_fcs)),
                    2 * latent_state_size))]

\* self.prior_transition_model
PriorTransitionModel(th, belief) == MeanStdSplit(Trunk(th, 4, belief))

\* self.encoder.forward on a [B] tensor of one-pixel observations
Encoder(th, obs) == [b \in 1..Len(obs) |-> Linear(th, 6, << obs[b] >>, obs_encoding_size)]

\* self.posterior_transition_model
PosteriorTransitionModel(th, x) == MeanStdSplit(Trunk(th, 7, x))

\* self.decoder on a [N, latent_state_size + belief_size] tensor: one
\* one-pixel observation per row
Decoder(th, x) ==
    [r \in 1..Len(x) |->
        Linear(th, 10, Linear(th, 9, x[r], obs_encoding_size), 1)[1]]

\* torch.randn_like: the tensor the generator returns for a seed
Randn(seed, B, n) == [b \in 1..B |-> [l \in 1..n |-> ((seed + b + 2 * l) % 3) - 1]]
PriorNoise(d, B) == Randn(d \div 2, B, latent_state_size)
PosteriorNoise(d, B) == Randn((d % 2) + 1, B, latent_state_size)

\* PlaNetModel._sample_state_from_params, eps the randn_like draw
SampleStateFromParams(params, eps) ==
    LET mean == Cols(params, 1, latent_state_size)
        std  == Cols(params, latent_state_size + 1, Len(params[1]))
    IN  [b \in 1..Len(params) |->
            [i \in 1..latent_state_size |-> mean[b][i] + std[b][i] * eps[b][i]]]

----------------------------------------------------------------------------
(* StatesAndBeliefs.                                                       *)

\* lists shared between the instances instead of created per instance
NewStatesAndBeliefs_shared ==
    IF states_and_beliefs = NoRec
    THEN [all_prior_dist_params |-> << >>, prior_states |-> << >>,
          all_posterior_dist_params |-> << >>, posterior_states |-> << >>,
          beliefs |-> << >>]
    ELSE states_and_beliefs

\* StatesAndBeliefs.__init__
NewStatesAndBeliefs ==
    [all_prior_dist_params |-> << >>, prior_states |-> << >>,
     all_posterior_dist_params |-> << >>, posterior_states |-> << >>,
     beliefs |-> << >>]

AppendIf(list, x) == IF x # NoTensor THEN Append(list, x) ELSE list

\* an append that leaves the beliefs out
SBAppend_nobelief(sb, prior_dist_params, prior_state, posterior_dist_params, posterior_state, belief) ==
    [all_prior_dist_params |-> AppendIf(sb.all_prior_dist_params, prior_dist_params),
     prior_states |-> AppendIf(sb.prior_states, prior_state),
     all_posterior_dist_params |->
         AppendIf(sb.all_posterior_dist_params, posterior_dist_params),
     posterior_states |-> AppendIf(sb.posterior_states, posterior_state),
     beliefs |-> sb.beliefs]

\* StatesAndBeliefs.append
SBAppend(sb, prior_dist_params, prior_state, posterior_dist_params, posterior_state, belief) ==
    [all_prior_dist_params |-> AppendIf(sb.all_prior_dist_params, prior_dist_params),
     prior_states |-> AppendIf(sb.prior_states, prior_state),
     all_posterior_dist_params |->
         AppendIf(sb.all_posterior_dist_params, posterior_dist_params),
     posterior_states |-> AppendIf(sb.posterior_states, posterior_state),
     beliefs |-> AppendIf(sb.beliefs, belief)]

\* StatesAndBeliefs.as_stacked_tuple: torch.stack keeps the list order, the
\* stacked [T+1, B, F] tensor is the sequence itself
AsStackedTuple(sb) ==
    << sb.all_prior_dist_params, sb.prior_states, sb.all_posterior_dist_params,
       sb.posterior_states, sb.beliefs >>

----------------------------------------------------------------------------
(* The batches handed to the model.                                        *)

Patterns == {0, 1}

MakeBatch(B, T, k) ==
    [B |-> B, T |-> T,
     next_obs |-> [b \in 1..B |-> [t \in 1..T |-> 10 * ((k + b + t) % 2)]],
     act |-> [b \in 1..B |-> [t \in 1..T |->
                 [a \in 1..action_size |-> 10 * (((k + 2 * b + t + a) % 3) - 1)]]]]

Batches == { MakeBatch(B, T, k) : B \in 1..MaxB, T \in 1..MaxT, k \in Patterns }

\* x[:, t_step] of a [B, T, ...] tensor, t_step counted from 0
AtStep(x, t) == [b \in 1..Len(x) |-> x[b][t + 1]]

\* inputs of the direct MeanStdSplit calls: one row, extreme values included
RawValues == {-1000, -10, 10, 1000}
RawInputs == { << r >> : r \in [1..(2 * latent_state_size) -> RawValues] }

----------------------------------------------------------------------------
(* PlaNetModel.forward.                                                    *)

\* a recurrence that consumes the posterior sample
NextLatentState_posterior(prior_sample, posterior_sample) == posterior_sample

\* the latent state the next belief update receives (current_latent_state = ...)
NextLatentState(prior_sample, posterior_sample) == prior_sample

\* a decoder input that keeps the index-0 entries
DecoderInput_all(tuple) ==
    Flatten([t \in 1..Len(tuple[4]) |-> Cat1(tuple[4][t], tuple[5][t])])

\* decoder_input before the decoder: cat(dim=2) of the two [T, B, *] slices,
\* then .view(-1, latent_state_size + belief_size): rows in (t, b) order
DecoderInput(tuple) ==
    LET ps == DropFirst(tuple[4])
        bs == DropFirst(tuple[5])
    IN  Flatten([t \in 1..Len(ps) |-> Cat1(ps[t], bs[t])])

\* flat.view(next_obs.shape): the row-major reading of B*T rows as [B, T]
ViewAs(flat, B, T) == [b \in 1..B |-> [t \in 1..T |-> flat[(b - 1) * T + t]]]

Init ==
    /\ theta \in Thetas
    /\ pc = "idle"
    /\ kind = "none"
    /\ reduce = TRUE
    /\ batch = NoRec
    /\ t_step = 0
    /\ current_latent_state = NoTensor
    /\ current_belief = NoTensor
    /\ states_and_beliefs = NoRec
    /\ fed = << >>
    /\ draws = << >>
    /\ decoder_input = NoTensor
    /\ out = NoRec
    /\ kl_args = NoRec
    /\ result = NoRec
    /\ prev = NoRec
    /\ split_in \in RawInputs \cup {NoTensor}
    /\ split_out = NoTensor

\* a direct call of MeanStdSplit.forward
SplitForward ==
    /\ pc = "idle"
    /\ split_in # NoTensor
    /\ split_out = NoTensor
    /\ split_out' = MeanStdSplit(split_in)
    /\ UNCHANGED << theta, pc, kind, reduce, batch, t_step, current_latent_state,
                    current_belief, states_and_beliefs, fed, draws,
                    decoder_input, out, kl_args, result, prev, split_in >>

\* loss / eval_score up to their call of forward, and forward up to its loop
Enter(k, bt, red) ==
    /\ pc = "idle"
    /\ split_in = NoTensor
    /\ kind' = k
    /\ reduce' = red
    /\ batch' = bt
    /\ LET cls == ZerosBatch(bt.B, latent_state_size)
           cb  == ZerosBatch(bt.B, belief_size)
           pdp == ZerosBatch(bt.B, 2 * latent_state_size)
       IN  /\ current_latent_state' = cls
           /\ current_belief' = cb
           /\ states_and_beliefs' =
                 SBAppend(NewStatesAndBeliefs, pdp, cls,
                          ZerosBatch(bt.B, 2 * latent_state_size),
                          ZerosBatch(bt.B, latent_state_size), cb)
    /\ t_step' = 0
    /\ pc' = "loop"
    /\ fed' = << >>
    /\ draws' = << >>
    /\ decoder_input' = NoTensor
    /\ out' = NoRec
    /\ kl_args' = NoRec
    /\ result' = NoRec
    \* the caller keeps the previous call's outputs while it repeats the batch
    /\ prev' = IF prev # NoRec /\ prev.batch = bt THEN prev ELSE NoRec
    /\ UNCHANGED << theta, split_in, split_out >>

CallLoss == \E bt \in Batches : Enter("loss", bt, TRUE)
CallEvalScore == \E bt \in Batches : Enter("eval_score", bt, FALSE)

\* one iteration of the loop over range(trajectory_length)
ForwardStep ==
    /\ pc = "loop"
    /\ t_step < batch.T
    /\ \E d \in Draws :
       \E next_belief \in {BeliefModel(theta, current_latent_state,
                                       AtStep(batch.act, t_step), current_belief)} :
       \E prior_dist_params \in {PriorTransitionModel(theta, next_belief)} :
       \E next_obs_encoding \in {Encoder(theta, AtStep(batch.next_obs, t_step))} :
       \E posterior_dist_params \in
              {PosteriorTransitionModel(theta, Cat1(next_obs_encoding, next_belief))} :
       \E prior_sample \in
              {SampleStateFromParams(prior_dist_params, PriorNoise(d, batch.B))} :
       \E posterior_sample \in
              {SampleStateFromParams(posterior_dist_params,
                                     PosteriorNoise(d, batch.B))} :
           /\ fed' = Append(fed, current_latent_state)
           /\ draws' = Append(draws, d)
           /\ current_latent_state' = NextLatentState(prior_sample, posterior_sample)
           /\ current_belief' = next_belief
           /\ states_and_beliefs' =
                 SBAppend(states_and_beliefs, prior_dist_params, prior_sample,
                          posterior_dist_params, posterior_sample, next_belief)
    /\ t_step' = t_step + 1
    /\ UNCHANGED << theta, pc, kind, reduce, batch, decoder_input, out, kl_args,
                    result, prev, split_in, split_out >>

\* forward after the loop: stack, decode, return
ForwardReturn ==
    /\ pc = "loop"
    /\ t_step = batch.T
    /\ \E tuple \in {AsStackedTuple(states_and_beliefs)} :
       \E di \in {DecoderInput(tuple)} :
           /\ decoder_input' = di
           /\ out' = [prior_dist_params |-> tuple[1], prior_states |-> tuple[2],
                      posterior_dist_params |-> tuple[3],
                      posterior_states |-> tuple[4], beliefs |-> tuple[5],
                      pred_next_observations |->
                          ViewAs(Decoder(theta, di), batch.B, batch.T)]
    /\ pc' = "forwarded"
    /\ UNCHANGED << theta, kind, reduce, batch, t_step, current_latent_state,
                    current_belief, states_and_beliefs, fed, draws, kl_args,
                    result, prev, split_in, split_out >>

----------------------------------------------------------------------------
(* PlaNetModel.loss and PlaNetModel.eval_score.                            *)

\* x[1:, :, lo:hi] of a stacked [T+1, B, F] tensor
SliceParams(x, lo, hi) ==
    LET y == DropFirst(x) IN [t \in 1..Len(y) |-> Cols(y[t], lo, hi)]

\* the arguments of the two Normal(...) of the KL term
KLArgs(o) ==
    [q_loc   |-> SliceParams(o.posterior_dist_params, 1, latent_state_size),
     q_scale |-> SliceParams(o.posterior_dist_params, latent_state_size + 1,
                             2 * latent_state_size),
     p_loc   |-> SliceParams(o.prior_dist_params, 1, latent_state_size),
     p_scale |-> SliceParams(o.prior_dist_params, latent_state_size + 1,
                             2 * latent_state_size)]

\* torch.distributions.kl_divergence(Normal, Normal): elementwise, [T, B, L]
KLDivergence(a) ==
    [t \in 1..Len(a.q_loc) |->
        [b \in 1..Len(a.q_loc[t]) |->
            [l \in 1..Len(a.q_loc[t][b]) |->
                KLElem(a.q_loc[t][b][l], a.q_scale[t][b][l],
                       a.p_loc[t][b][l], a.p_scale[t][b][l])]]]

\* x.sum(0) of a [T, B, L] tensor: [B, L]
Sum0(x) ==
    [b \in 1..Len(x[1]) |->
        [l \in 1..Len(x[1][b]) |-> SumSeq([t \in 1..Len(x) |-> x[t][b][l]])]]

\* a clamp from above: .min(c) in place of .max(c)
ClampMin_min(x, c) == [b \in 1..Len(x) |-> [l \in 1..Len(x[b]) |-> Min(x[b][l], c)]]

\* x.max(c) of a [B, L] tensor with a one-element tensor c: elementwise maximum
ClampMin(x, c) == [b \in 1..Len(x) |-> [l \in 1..Len(x[b]) |-> Max(x[b][l], c)]]

\* x.mean() of a [B, L] tensor: over all of its elements
Mean(x) == LET flat == Flatten(x) IN Rat(SumSeq(flat), Len(flat))

\* the tensor the final .mean() of the KL term averages
KLClamped(a) == ClampMin(Sum0(KLDivergence(a)), free_nats_for_kl)

\* the KL term of loss
KLLoss(a) == Mean(KLClamped(a))

\* F.mse_loss(next_obs, pred), in 1/1000: the mean of the squared differences
MSELoss(x, y) ==
    Mean([b \in 1..Len(x) |->
            [t \in 1..Len(x[b]) |-> 10 * (x[b][t] - y[b][t]) * (x[b][t] - y[b][t])]])

\* a loss that honours reduce=False by returning the sums, not the means
LossValue_reduce(reconstruction_loss, kl_loss, red) ==
    IF red THEN RatAdd(reconstruction_loss, kl_loss)
    ELSE Rat(reconstruction_loss.num + kl_loss.num, 1)

\* the value loss returns; the reduce argument is not read
LossValue(reconstruction_loss, kl_loss, red) == RatAdd(reconstruction_loss, kl_loss)

\* loss after its call of forward, also as called by eval_score
LossCompute ==
    /\ pc = "forwarded"
    /\ \E a \in {KLArgs(out)} :
       \E reconstruction_loss \in
              {MSELoss(batch.next_obs, out.pred_next_observations)} :
       \E kl_loss \in {KLLoss(a)} :
           /\ kl_args' = a
           /\ result' = [reconstruction_loss |-> reconstruction_loss,
                         kl_loss |-> kl_loss,
                         value |-> LossValue(reconstruction_loss, kl_loss, reduce)]
    /\ pc' = "computed"
    /\ UNCHANGED << theta, kind, reduce, batch, t_step, current_latent_state,
                    current_belief, states_and_beliefs, fed, draws,
                    decoder_input, out, prev, split_in, split_out >>

\* the call returns to its caller: the locals are dropped, the caller keeps
\* what was returned; the StatesAndBeliefs object is garbage from here on
Return ==
    /\ pc = "computed"
    /\ prev' = [kind |-> kind, theta |-> theta, batch |-> batch, draws |-> draws,
                out |-> out, result |-> result]
    /\ pc' = "idle"
    /\ kind' = "none"
    /\ reduce' = TRUE
    /\ batch' = NoRec
    /\ t_step' = 0
    /\ current_latent_state' = NoTensor
    /\ current_belief' = NoTensor
    /\ fed' = << >>
    /\ draws' = << >>
    /\ decoder_input' = NoTensor
    /\ out' = NoRec
    /\ kl_args' = NoRec
    /\ result' = NoRec
    /\ UNCHANGED << theta, states_and_beliefs, split_in, split_out >>

Next ==
    \/ SplitForward
    \/ CallLoss
    \/ CallEvalScore
    \/ ForwardStep
    \/ ForwardReturn
    \/ LossCompute
    \/ Return

Spec == Init /\ [][Next]_vars

----------------------------------------------------------------------------
(* Properties.                                                             *)

InForward == pc \in {"loop", "forwarded", "computed"}
Forwarded == pc \in {"forwarded", "computed"}
\* the caller holds the outputs of an earlier call on the same batch
Repeated == Forwarded /\ prev # NoRec /\ prev.batch = batch

\* C1: at every loop step the belief update receives the prior sample recorded
\* at the step before (the history entry of the same index), and the zero
\* vector at step 0, whatever the posterior sample was.
C1_FedIsPriorSample ==
    InForward =>
        /\ Len(fed) = t_step
        /\ \A k \in 1..Len(fed) : fed[k] = states_and_beliefs.prior_states[k]
        /\ fed # << >> => fed[1] = ZerosBatch(batch.B, latent_state_size)
        /\ current_latent_state = states_and_beliefs.prior_states[t_step + 1]

\* a second step was fed a prior sample that differs from the posterior sample
C1_Witness ==
    /\ InForward
    /\ Len(fed) >= 2
    /\ fed[2] = states_and_beliefs.prior_states[2]
    /\ states_and_beliefs.prior_states[2] # states_and_beliefs.posterior_states[2]

\* C3: the five history lists have equal length, 1 after initialisation and
\* k+1 after the k-th loop step, T+1 after the loop; their index-0 entries are
\* all-zero.
C3_HistoryLengths ==
    InForward =>
        LET sb == states_and_beliefs IN
        /\ Len(sb.all_prior_dist_params) = t_step + 1
        /\ Len(sb.prior_states) = t_step + 1
        /\ Len(sb.all_posterior_dist_params) = t_step + 1
        /\ Len(sb.posterior_states) = t_step + 1
        /\ Len(sb.beliefs) = t_step + 1
        /\ sb.all_prior_dist_params[1] = ZerosBatch(batch.B, 2 * latent_state_size)
        /\ sb.all_posterior_dist_params[1] = ZerosBatch(batch.B, 2 * latent_state_size)
        /\ sb.prior_states[1] = ZerosBatch(batch.B, latent_state_size)
        /\ sb.posterior_states[1] = ZerosBatch(batch.B, latent_state_size)
        /\ sb.beliefs[1] = ZerosBatch(batch.B, belief_size)
        /\ Forwarded =>
              /\ t_step = batch.T
              /\ Len(out.prior_dist_params) = batch.T + 1
              /\ Len(out.prior_states) = batch.T + 1
              /\ Len(out.posterior_dist_params) = batch.T + 1
              /\ Len(out.posterior_states) = batch.T + 1
              /\ Len(out.beliefs) = batch.T + 1

\* a rollout over the longest trajectory has returned
C3_Witness ==
    /\ pc = "forwarded"
    /\ batch.T = MaxT
    /\ Len(states_and_beliefs.beliefs) = MaxT + 1

StdsOf(params) ==
    { params[b][i] : b \in 1..Len(params),
                     i \in (latent_state_size + 1)..(2 * latent_state_size) }

\* C5: MeanStdSplit.forward returns a tensor of the width of its input whose
\* second half is >= min_std in every element, the first half passed through;
\* every prior and posterior parameter vector recorded at steps 1..T has
\* std >= min_std > 0.
C5_StdAtLeastMinStd ==
    /\ split_out # NoTensor =>
          /\ Len(split_out[1]) = Len(split_in[1])
          /\ SubSeq(split_out[1], 1, latent_state_size)
                = SubSeq(split_in[1], 1, latent_state_size)
          /\ \A s \in StdsOf(split_out) : s >= min_std
    /\ InForward =>
          \A k \in 2..Len(states_and_beliefs.all_prior_dist_params) :
              /\ Len(states_and_beliefs.all_prior_dist_params[k][1])
                    = 2 * latent_state_size
              /\ \A s \in StdsOf(states_and_beliefs.all_prior_dist_params[k])
                          \cup StdsOf(states_and_beliefs.all_posterior_dist_params[k]) :
                    s >= min_std /\ s > 0

\* the split was applied to an input whose std half holds an extreme negative
\* value, and returned exactly min_std there
C5_Witness ==
    /\ split_out # NoTensor
    /\ split_in[1][latent_state_size + 1] = -1000
    /\ split_out[1][latent_state_size + 1] = min_std

\* C4 as stated: two rollouts of the same batch under the same parameters
\* return the same prior and posterior distribution parameters at every time
\* step, whatever the noise.
C4_ParamsIndependentOfNoise ==
    Repeated =>
        /\ out.prior_dist_params = prev.out.prior_dist_params
        /\ out.posterior_dist_params = prev.out.posterior_dist_params

SamePriorSamplesBefore(k) ==
    \A j \in 1..(k - 1) : out.prior_states[j] = prev.out.prior_states[j]

\* C4 amended: two rollouts of the same batch under the same parameters return
\* the same distribution parameters (and beliefs) at time steps 0 and 1, and
\* at every later step up to which their prior samples coincide; the
\* posterior noise never changes a parameter.
C4_ParamsFollowPriorSamples ==
    Repeated =>
        \A k \in 1..(batch.T + 1) :
            (k <= 2 \/ SamePriorSamplesBefore(k)) =>
                /\ out.prior_dist_params[k] = prev.out.prior_dist_params[k]
                /\ out.posterior_dist_params[k] = prev.out.posterior_dist_params[k]
                /\ out.beliefs[k] = prev.out.beliefs[k]

\* two rollouts of one batch drew different noise: equal prior samples and
\* different posterior samples at step 1, equal parameters at step 2
C4_Witness ==
    /\ Repeated
    /\ batch.T >= 2
    /\ draws # prev.draws
    /\ out.prior_states[2] = prev.out.prior_states[2]
    /\ out.posterior_states[2] # prev.out.posterior_states[2]
    /\ out.prior_dist_params[3] = prev.out.prior_dist_params[3]

\* C7: a call starts from a fresh history and leaves the parameters alone:
\* its history has T+1 entries of this call alone, and with the batch and the
\* noise of the previous call it returns the outputs of the previous call.
C7_NoStateAcrossCalls ==
    /\ prev # NoRec => prev.theta = theta
    /\ InForward => Len(states_and_beliefs.beliefs) = t_step + 1
    /\ Forwarded =>
          /\ Len(out.prior_states) = batch.T + 1
          /\ Len(decoder_input) = batch.B * batch.T
    /\ (Repeated /\ prev.draws = draws) => out = prev.out

\* a second call on the same batch drew the same noise and has returned
C7_Witness ==
    /\ Repeated
    /\ prev.draws = draws
    /\ batch.T = MaxT
    /\ out = prev.out

\* C8: with the same batch, parameters and noise, eval_score returns the value
\* loss returns, the sum of the reconstruction term and the KL term.
C8_EvalScoreIsLoss ==
    (pc = "computed" /\ Repeated /\ prev.draws = draws /\ kind # prev.kind) =>
        /\ result.value = prev.result.value
        /\ result.value = RatAdd(result.reconstruction_loss, result.kl_loss)

\* eval_score has returned after loss on the same batch with the same noise
C8_Witness ==
    /\ pc = "computed"
    /\ Repeated
    /\ prev.draws = draws
    /\ kind = "eval_score"
    /\ prev.kind = "loss"
    /\ reduce = FALSE
    /\ result.value = prev.result.value

\* C6: after clamping every KL value of every trajectory is >= free_nats, and
\* so is the batch-averaged KL term added to the loss.
C6_KLAtLeastFreeNats ==
    pc = "computed" =>
        /\ \A b \in 1..batch.B :
              \A l \in 1..latent_state_size :
                  KLClamped(kl_args)[b][l] >= free_nats_for_kl
        /\ result.kl_loss = Mean(KLClamped(kl_args))
        /\ result.kl_loss.num >= free_nats_for_kl * result.kl_loss.den

\* the loss of a batch was computed in which one summed KL value lies below
\* free_nats and another one above it
C6_Witness ==
    /\ pc = "computed"
    /\ \E b \in 1..batch.B :
          \E l \in 1..latent_state_size :
              Sum0(KLDivergence(kl_args))[b][l] < free_nats_for_kl
    /\ \E b \in 1..batch.B :
          \E l \in 1..latent_state_size :
              Sum0(KLDivergence(kl_args))[b][l] > free_nats_for_kl

\* the KL total of trajectory b: summed over steps 1..T and the latent dimensions
KLTotal(b) ==
    SumSeq([t \in 1..batch.T |-> SumSeq(KLDivergence(KLArgs(out))[t][b])])

\* C2 as stated: the KL term is the mean over the B trajectories of
\* max(total_b, free_nats), total_b the KL of trajectory b summed over the
\* steps 1..T and over the latent dimensions.
C2_KLClampedPerTrajectory ==
    pc = "computed" =>
        RatEq(result.kl_loss,
              Rat(SumSeq([b \in 1..batch.B |-> Max(KLTotal(b), free_nats_for_kl)]),
                  batch.B))

\* C9 as stated: the prediction at [b, t] is the decoding of the posterior
\* state and the belief of trajectory b at step t (history index t+1).
C9_PredictionMatchesTrajectoryAndStep ==
    Forwarded =>
        \A b \in 1..batch.B :
            \A t \in 1..batch.T :
                out.pred_next_observations[b][t]
                    = Decoder(theta, << out.posterior_states[t + 1][b]
                                         \o out.beliefs[t + 1][b] >>)[1]

\* C10: the four tensors of the KL term are the parameters of the history
\* indices 1..T and hold no zero std; the decoder input holds the B*T rows of
\* the posterior states and beliefs of the history indices 1..T.
C10_StepZeroNeverConsumed ==
    /\ pc = "computed" =>
          /\ Len(kl_args.q_scale) = batch.T
          /\ Len(kl_args.p_scale) = batch.T
          /\ \A t \in 1..batch.T :
                /\ Cat1(kl_args.q_loc[t], kl_args.q_scale[t])
                      = out.posterior_dist_params[t + 1]
                /\ Cat1(kl_args.p_loc[t], kl_args.p_scale[t])
                      = out.prior_dist_params[t + 1]
                /\ \A s \in StdsOf(Cat1(kl_args.q_loc[t], kl_args.q_scale[t]))
                            \cup StdsOf(Cat1(kl_args.p_loc[t], kl_args.p_scale[t])) :
                      s > 0
    /\ Forwarded =>
          /\ Len(decoder_input) = batch.B * batch.T
          /\ \A t \in 1..batch.T :
                \A b \in 1..batch.B :
                    decoder_input[(t - 1) * batch.B + b]
                        = out.posterior_states[t + 1][b] \o out.beliefs[t + 1][b]

\* the loss of a batch of several trajectories and several steps was computed
C10_Witness ==
    /\ pc = "computed"
    /\ batch.B >= 2
    /\ batch.T >= 2
    /\ Len(decoder_input) = batch.B * batch.T
    /\ Len(kl_args.q_scale) = batch.T

====
